---- MODULE Spec2Model ----
(***************************************************************************)
(* Model of src/telegram_bot/bot.py: the message chunker split_message and *)
(* the request handler search_word with the helpers it calls.              *)
(*                                                                         *)
(* A Python str is a sequence of one-character strings; NL is '\n'.        *)
(***************************************************************************)
EXTENDS Integers, Sequences, FiniteSets, TLC

VARIABLES
    text,           \* split_message: the text argument
    max_length,     \* split_message: the max_length argument
    outcome,        \* split_message: the list returned or the exception raised
    phase,          \* "call" before the call, "returned" after it
    pc,             \* search_word: position in the handler
    access_key,     \* UNSPLASH_ACCESS_KEY is set
    word,           \* search_word: the stripped, lowercased message text
    data,           \* search_word: the decoded lookup response
    idx,            \* search_word: chunks of message_parts sent so far
    replies,        \* messages delivered to the chat, in order
    calls,          \* outbound HTTP requests made, in order
    log,            \* warning and error log entries, in order
    faults,         \* failures of remote calls and sends, in order
    uk_pron_sent,
    us_pron_sent,
    photo_id        \* id of the image found by the image search

splitVars == <<text, max_length, outcome, phase>>

botVars == <<pc, access_key, word, data, idx, replies, calls, log, faults,
             uk_pron_sent, us_pron_sent, photo_id>>

vars == <<splitVars, botVars>>

----------------------------------------------------------------------------
(* Bounds of the model                                                     *)

\* longest text handed to split_message
MaxLen == 7
\* largest max_length handed to split_message
MaxLimit == 4

NL == "\n"
Letters == {"a", "b"}
Chars == Letters \cup {NL}

RECURSIVE StringsUpTo(_)
StringsUpTo(n) ==
    IF n = 0 THEN {<<>>}
    ELSE LET shorter == StringsUpTo(n - 1)
         IN  shorter \cup {Append(s, c) : s \in {x \in shorter : Len(x) = n - 1}, c \in Chars}

Texts == StringsUpTo(MaxLen)
Limits == (-1) .. MaxLimit

----------------------------------------------------------------------------
(* Python string primitives                                                *)

Min(a, b) == IF a < b THEN a ELSE b

\* s[i:j] for 0 <= i <= j
Slice(s, i, j) == SubSeq(s, i + 1, Min(j, Len(s)))

\* s.startswith(sep, i)
StartsAt(s, sep, i) ==
    /\ i + Len(sep) <= Len(s)
    /\ \A k \in 1 .. Len(sep) : s[i + k] = sep[k]

\* s.find(sep, i), with Len(s) standing for "not found"
RECURSIVE Find(_, _, _)
Find(s, sep, i) ==
    IF i + Len(sep) > Len(s) THEN Len(s)
    ELSE IF StartsAt(s, sep, i) THEN i
    ELSE Find(s, sep, i + 1)

\* s.split(sep): leftmost non-overlapping occurrences, empty pieces kept
RECURSIVE Split(_, _)
Split(s, sep) ==
    LET i == Find(s, sep, 0)
    IN  IF i = Len(s) THEN <<s>>
        ELSE <<Slice(s, 0, i)>> \o Split(Slice(s, i + Len(sep), Len(s)), sep)

----------------------------------------------------------------------------
(* split_message                                                           *)

\* Accumulate with the separator left out of the length test.
AccumulateNoSep(st, sep, unit, limit) ==
    IF Len(st.current_part \o unit) > limit
    THEN [st EXCEPT !.parts = Append(st.parts, st.current_part),
                    !.current_part = unit]
    ELSE [st EXCEPT !.current_part =
              IF st.current_part # <<>> THEN st.current_part \o sep \o unit
              ELSE unit]

\* One pass of "if len(current_part + sep + unit) > max_length: flush; else join"
\* (bot.py 171-175 with sep = '\n', 177-181 with sep = '\n\n').
Accumulate(st, sep, unit, limit) ==
    IF Len(st.current_part \o sep \o unit) > limit
    THEN [st EXCEPT !.parts = Append(st.parts, st.current_part),
                    !.current_part = unit]
    ELSE [st EXCEPT !.current_part =
              IF st.current_part # <<>> THEN st.current_part \o sep \o unit
              ELSE unit]

\* ChunkLoop with the slice one character short: line[i:i+max_length-1].
RECURSIVE ChunkLoopShortSlice(_, _, _, _)
ChunkLoopShortSlice(st, line, i, limit) ==
    IF i >= Len(line) THEN st
    ELSE LET chunk == Slice(line, i, i + limit - 1)
             next == IF Len(st.current_part \o chunk) > limit
                     THEN [st EXCEPT !.parts = Append(st.parts, st.current_part),
                                     !.current_part = chunk]
                     ELSE [st EXCEPT !.current_part = st.current_part \o chunk]
         IN  ChunkLoopShortSlice(next, line, i + limit, limit)

\* ChunkLoop flushing as soon as the limit is reached: ">=" for ">".
RECURSIVE ChunkLoopEagerFlush(_, _, _, _)
ChunkLoopEagerFlush(st, line, i, limit) ==
    IF i >= Len(line) THEN st
    ELSE LET chunk == Slice(line, i, i + limit)
             next == IF Len(st.current_part \o chunk) >= limit
                     THEN [st EXCEPT !.parts = Append(st.parts, st.current_part),
                                     !.current_part = chunk]
                     ELSE [st EXCEPT !.current_part = st.current_part \o chunk]
         IN  ChunkLoopEagerFlush(next, line, i + limit, limit)

\* Body of "for i in range(0, len(line), max_length)" for max_length > 0.
RECURSIVE ChunkLoop(_, _, _, _)
ChunkLoop(st, line, i, limit) ==
    IF i >= Len(line) THEN st
    ELSE LET chunk == Slice(line, i, i + limit)
             next == IF Len(st.current_part \o chunk) > limit
                     THEN [st EXCEPT !.parts = Append(st.parts, st.current_part),
                                     !.current_part = chunk]
                     ELSE [st EXCEPT !.current_part = st.current_part \o chunk]
         IN  ChunkLoop(next, line, i + limit, limit)

\* range(0, n, step): step = 0 raises ValueError, step < 0 is the empty range.
LineStep(st, line, limit) ==
    IF st.raised # "none" THEN st
    ELSE IF Len(line) > limit
    THEN IF limit = 0 THEN [st EXCEPT !.raised = "ValueError"]
         ELSE IF limit < 0 THEN st
         ELSE ChunkLoop(st, line, 0, limit)
    ELSE Accumulate(st, <<NL>>, line, limit)

RECURSIVE LineLoop(_, _, _, _)
LineLoop(st, lines, k, limit) ==
    IF k > Len(lines) THEN st
    ELSE LineLoop(LineStep(st, lines[k], limit), lines, k + 1, limit)

ParagraphStep(st, paragraph, limit) ==
    IF st.raised # "none" THEN st
    ELSE IF Len(paragraph) > limit
    THEN LineLoop(st, Split(paragraph, <<NL>>), 1, limit)
    ELSE Accumulate(st, <<NL, NL>>, paragraph, limit)

RECURSIVE ParagraphLoop(_, _, _, _)
ParagraphLoop(st, paragraphs, k, limit) ==
    IF k > Len(paragraphs) THEN st
    ELSE ParagraphLoop(ParagraphStep(st, paragraphs[k], limit), paragraphs, k + 1, limit)

\* split_message with "<" for "<=" in the test of line 147.
split_message_strict(t, limit) ==
    IF Len(t) < limit THEN [raised |-> "none", parts |-> <<t>>]
    ELSE LET st0 == [parts |-> <<>>, current_part |-> <<>>, raised |-> "none"]
             st == ParagraphLoop(st0, Split(t, <<NL, NL>>), 1, limit)
         IN  IF st.raised # "none" THEN [raised |-> st.raised, parts |-> <<>>]
             ELSE [raised |-> "none",
                   parts |-> IF st.current_part # <<>>
                             THEN Append(st.parts, st.current_part)
                             ELSE st.parts]

\* The outcome of a call: the list returned, or the exception that left it.
split_message(t, limit) ==
    IF Len(t) <= limit THEN [raised |-> "none", parts |-> <<t>>]
    ELSE LET st0 == [parts |-> <<>>, current_part |-> <<>>, raised |-> "none"]
             st == ParagraphLoop(st0, Split(t, <<NL, NL>>), 1, limit)
         IN  IF st.raised # "none" THEN [raised |-> st.raised, parts |-> <<>>]
             ELSE [raised |-> "none",
                   parts |-> IF st.current_part # <<>>
                             THEN Append(st.parts, st.current_part)
                             ELSE st.parts]

----------------------------------------------------------------------------
(* Calls of split_message on every bounded input                           *)

NoOutcome == [raised |-> "pending", parts |-> <<>>]

NoData == [error |-> "absent", word |-> <<>>, pos |-> <<>>,
           pronunciation |-> <<>>, definition |-> <<>>]

\* No message is being handled.
BotIdle ==
    /\ pc = "idle"
    /\ word = <<>>
    /\ data = NoData
    /\ idx = 0
    /\ replies = <<>>
    /\ calls = <<>>
    /\ log = <<>>
    /\ faults = <<>>
    /\ uk_pron_sent = FALSE
    /\ us_pron_sent = FALSE
    /\ photo_id = ""

SplitInit ==
    /\ text \in Texts
    /\ max_length \in Limits
    /\ outcome = NoOutcome
    /\ phase = "call"
    /\ access_key = FALSE
    /\ BotIdle

CallSplit ==
    /\ phase = "call"
    /\ pc = "idle"
    /\ outcome' = split_message(text, max_length)
    /\ phase' = "returned"
    /\ UNCHANGED <<text, max_length, botVars>>

SplitNext == CallSplit

SplitSpec == SplitInit /\ [][SplitNext]_vars

----------------------------------------------------------------------------
(* The lookup response and the text built from it (search_word, 232-273)   *)
(*                                                                         *)
(* Every literal of the f-strings is rendered as one character:            *)
(*   "[" book emoji and "*"      "]" closing "*"      "S" part-of-speech   *)
(*   "P" "*Pronunciation:*"      "K" the UK label     "A" the US label     *)
(*   ":" ": "                    "D" "*Definitions:*" "." "." after the    *)
(*   number   "(" ")" around a definition's pos       "T" "_Translation:_" *)
(*   "E" "_Examples:_"           "-" the bullet       "~" the indent of an *)
(*   example's translation       "N" "No definitions found."               *)
(* MAX_MESSAGE_LENGTH is 4000 in bot.py (line 130); it is scaled with the  *)
(* texts, to ScaledLimit, so that results of one and of several chunks     *)
(* both occur.                                                             *)

\* the message limit at the scale of the rendered texts
ScaledLimit == 6
MAX_MESSAGE_LENGTH == ScaledLimit
\* longest pronunciation list of a lookup response
MaxProns == 2

Space == " "

\* str.strip(): whitespace removed at both ends
RECURSIVE LStrip(_)
LStrip(s) == IF s # <<>> /\ Head(s) = Space THEN LStrip(Tail(s)) ELSE s

RECURSIVE RStrip(_)
RStrip(s) ==
    IF s # <<>> /\ s[Len(s)] = Space THEN RStrip(SubSeq(s, 1, Len(s) - 1)) ELSE s

Strip(s) == RStrip(LStrip(s))

LowerChar(c) == IF c = "C" THEN "c" ELSE c
UpperChar(c) == IF c = "c" THEN "C" ELSE c

\* str.lower()
Lower(s) == [k \in 1 .. Len(s) |-> LowerChar(s[k])]

\* str.capitalize(): first character upper case, the rest lower case
Capitalize(s) ==
    [k \in 1 .. Len(s) |-> IF k = 1 THEN UpperChar(s[k]) ELSE LowerChar(s[k])]

\* sep.join(items)
RECURSIVE Join(_, _)
Join(items, sep) ==
    IF items = <<>> THEN <<>>
    ELSE IF Len(items) = 1 THEN items[1]
    ELSE items[1] \o sep \o Join(Tail(items), sep)

\* unique_prons: the first entry of every (lang, pron) pair, in first-seen order
RECURSIVE UniqueProns(_, _)
UniqueProns(prons, seen) ==
    IF prons = <<>> THEN <<>>
    ELSE LET p == Head(prons)
             key == <<p.lang, p.pron>>
         IN  IF key \in seen THEN UniqueProns(Tail(prons), seen)
             ELSE <<p>> \o UniqueProns(Tail(prons), seen \cup {key})

LangLabel(lang) ==
    IF lang = "uk" THEN <<"K">> ELSE IF lang = "us" THEN <<"A">> ELSE <<"L">>

RECURSIVE PronLines(_)
PronLines(prons) ==
    IF prons = <<>> THEN <<>>
    ELSE LangLabel(Head(prons).lang) \o <<":">> \o Head(prons).pron \o <<NL>>
         \o PronLines(Tail(prons))

RECURSIVE ExampleLines(_)
ExampleLines(exs) ==
    IF exs = <<>> THEN <<>>
    ELSE LET ex == Head(exs)
         IN  <<"-">> \o ex.text \o <<NL>>
             \o (IF ex.translation # <<>> THEN <<"~">> \o ex.translation \o <<NL>>
                 ELSE <<>>)
             \o ExampleLines(Tail(exs))

Numerals == <<"1", "2", "3">>

RECURSIVE DefinitionLines(_, _)
DefinitionLines(defs, i) ==
    IF i > Len(defs) THEN <<>>
    ELSE LET d == defs[i]
             pos == IF d.pos # <<>> THEN <<"(">> \o d.pos \o <<")">> ELSE <<>>
         IN  <<Numerals[i], ".">> \o pos \o <<Space>> \o d.text \o <<NL>>
             \o (IF d.translation # <<>> THEN <<"T">> \o d.translation \o <<NL>>
                 ELSE <<>>)
             \o (IF d.example # <<>>
                 THEN <<"E", NL>> \o ExampleLines(Slice(d.example, 0, 3)) \o <<NL>>
                 ELSE <<>>)
             \o DefinitionLines(defs, i + 1)

\* result, as built in lines 233-273
FormatResult(d) ==
    <<"[">> \o Capitalize(d.word) \o <<"]", NL, NL>>
    \o (IF d.pos # <<>> THEN <<"S">> \o Join(d.pos, <<",">>) \o <<NL, NL>> ELSE <<>>)
    \o (IF d.pronunciation # <<>>
        THEN <<"P", NL>> \o PronLines(UniqueProns(d.pronunciation, {})) \o <<NL>>
        ELSE <<>>)
    \o (IF d.definition # <<>>
        THEN <<"D", NL>> \o DefinitionLines(d.definition, 1)
        ELSE <<"N", NL>>)

\* Lookup responses the dictionary service is taken to give

PronEntries == [lang : {"uk", "us"}, pron : {<<"p">>}, url : {"u1", "u2"}]

RECURSIVE ListsUpTo(_, _)
ListsUpTo(S, n) ==
    IF n = 0 THEN {<<>>}
    ELSE LET shorter == ListsUpTo(S, n - 1)
         IN  shorter \cup {Append(l, x) : l \in {y \in shorter : Len(y) = n - 1}, x \in S}

PronLists == ListsUpTo(PronEntries, MaxProns)

Example1 == [text |-> <<"e">>, translation |-> <<>>]
Example2 == [text |-> <<"e">>, translation |-> <<"t">>]
Definition1 == [pos |-> <<>>, text |-> <<"d">>, translation |-> <<>>, example |-> <<>>]
Definition2 == [pos |-> <<"n">>, text |-> <<"d">>, translation |-> <<"t">>,
                example |-> <<Example1, Example2, Example1, Example1>>]

DefinitionLists == {<<>>, <<Definition1>>, <<Definition1, Definition2>>}
PosLists == {<<>>, <<<<"n">>, <<"v">>>>}
ErrorTexts == {"not found", ""}
Messages == ListsUpTo({Space, "C"}, 2)

Responses ==
    [error : {"absent"}, word : {<<"c">>}, pos : PosLists,
     pronunciation : PronLists, definition : DefinitionLists]

ErrorResponses ==
    [error : ErrorTexts, word : {<<>>}, pos : {<<>>},
     pronunciation : {<<>>}, definition : {<<>>}]

----------------------------------------------------------------------------
(* search_word and the helpers it calls                                    *)

Reply(kind, body) == [kind |-> kind, text |-> body]

\* first entry of the given language: next((p for p in ... if p["lang"] == l), None)
RECURSIVE FirstPron(_, _)
FirstPron(prons, lang) ==
    IF prons = <<>> THEN <<>>
    ELSE IF Head(prons).lang = lang THEN <<Head(prons)>>
    ELSE FirstPron(Tail(prons), lang)

\* "if uk_pron:" (line 293); the outer test of line 289 is implied by it
uk_wanted(d) == FirstPron(d.pronunciation, "uk") # <<>>

\* us_wanted without the comparison of the two URLs.
us_wanted_any(d) == FirstPron(d.pronunciation, "us") # <<>>

\* "if us_pron and (not uk_pron or us_pron["url"] != uk_pron["url"]):" (line 301)
us_wanted(d) ==
    LET uk == FirstPron(d.pronunciation, "uk")
        us == FirstPron(d.pronunciation, "us")
    IN  us # <<>> /\ (uk = <<>> \/ us[1].url # uk[1].url)

\* where the handler goes once the audio block (286-307) is left
AfterAudio == IF access_key THEN "img_search" ELSE "returned"
AfterUK(d) == IF us_wanted(d) THEN "audio_us" ELSE AfterAudio
AfterText(d) == IF uk_wanted(d) THEN "audio_uk" ELSE AfterUK(d)

\* "except Exception" of search_word (357-359): one log entry and the generic
\* reply; if that reply fails too, the exception leaves the handler.
Unexpected(fault) ==
    /\ log' = Append(log, "unexpected")
    /\ \E sent \in BOOLEAN :
          IF sent
          THEN /\ replies' = Append(replies, Reply("internal", ""))
               /\ faults' = Append(faults, fault)
               /\ pc' = "returned"
          ELSE /\ replies' = replies
               /\ faults' = faults \o <<fault, "send_internal">>
               /\ pc' = "raised"

\* lines 215-219: an empty word gets the prompt and nothing else
ReceiveEmpty ==
    /\ pc = "idle" /\ phase = "unused"
    /\ \E msg \in Messages :
          /\ Lower(Strip(msg)) = <<>>
          /\ word' = Lower(Strip(msg))
    /\ \E sent \in BOOLEAN :
          IF sent
          THEN /\ replies' = Append(replies, Reply("prompt", ""))
               /\ faults' = faults
               /\ pc' = "returned"
          ELSE /\ replies' = replies
               /\ faults' = Append(faults, "send_prompt")
               /\ pc' = "raised"
    /\ UNCHANGED <<splitVars, access_key, data, idx, calls, log,
                   uk_pron_sent, us_pron_sent, photo_id>>

\* lines 215-221: the progress notice, sent before the try block
ReceiveWord ==
    /\ pc = "idle" /\ phase = "unused"
    /\ \E msg \in Messages :
          /\ Lower(Strip(msg)) # <<>>
          /\ word' = Lower(Strip(msg))
    /\ \E sent \in BOOLEAN :
          IF sent
          THEN /\ replies' = Append(replies, Reply("progress", ""))
               /\ faults' = faults
               /\ pc' = "lookup"
          ELSE /\ replies' = replies
               /\ faults' = Append(faults, "send_progress")
               /\ pc' = "raised"
    /\ UNCHANGED <<splitVars, access_key, data, idx, calls, log,
                   uk_pron_sent, us_pron_sent, photo_id>>

\* lines 224-225 raising requests.RequestException, handled in 354-356
LookupFails ==
    /\ pc = "lookup"
    /\ calls' = Append(calls, <<"lookup", word>>)
    /\ log' = Append(log, "api")
    /\ \E sent \in BOOLEAN :
          IF sent
          THEN /\ replies' = Append(replies, Reply("unavailable", ""))
               /\ faults' = Append(faults, "lookup")
               /\ pc' = "returned"
          ELSE /\ replies' = replies
               /\ faults' = faults \o <<"lookup", "send_unavailable">>
               /\ pc' = "raised"
    /\ UNCHANGED <<splitVars, access_key, word, data, idx,
                   uk_pron_sent, us_pron_sent, photo_id>>

\* LookupError without the return of line 230: the handler goes on.
LookupErrorFallsThrough ==
    /\ pc = "lookup"
    /\ calls' = Append(calls, <<"lookup", word>>)
    /\ \E d \in ErrorResponses :
          /\ data' = d
          /\ \/ /\ replies' = Append(replies, Reply("error", d.error))
                /\ pc' = AfterAudio
                /\ UNCHANGED <<log, faults>>
             \/ Unexpected("send_error")
    /\ UNCHANGED <<splitVars, access_key, word, idx,
                   uk_pron_sent, us_pron_sent, photo_id>>

\* lines 228-230: the response carries "error"
LookupError ==
    /\ pc = "lookup"
    /\ calls' = Append(calls, <<"lookup", word>>)
    /\ \E d \in ErrorResponses :
          /\ data' = d
          /\ \/ /\ replies' = Append(replies, Reply("error", d.error))
                /\ pc' = "returned"
                /\ UNCHANGED <<log, faults>>
             \/ Unexpected("send_error")
    /\ UNCHANGED <<splitVars, access_key, word, idx,
                   uk_pron_sent, us_pron_sent, photo_id>>

\* lines 232-276: the result is formatted and split
LookupOk ==
    /\ pc = "lookup"
    /\ calls' = Append(calls, <<"lookup", word>>)
    /\ \E d \in Responses :
          /\ data' = d
          /\ text' = FormatResult(d)
          /\ max_length' = MAX_MESSAGE_LENGTH
          /\ outcome' = split_message(FormatResult(d), MAX_MESSAGE_LENGTH)
          /\ phase' = "returned"
          /\ idx' = 0
          /\ pc' = IF Len(outcome'.parts) = 0 THEN AfterText(d) ELSE "text"
    /\ UNCHANGED <<access_key, word, replies, log, faults,
                   uk_pron_sent, us_pron_sent, photo_id>>

\* lines 278-284: one chunk is sent; a failed send ends in "except Exception"
SendPart ==
    /\ pc = "text"
    /\ idx < Len(outcome.parts)
    /\ \/ /\ replies' = Append(replies,
                 Reply(IF idx = 0 THEN "text" ELSE "continued", outcome.parts[idx + 1]))
          /\ idx' = idx + 1
          /\ pc' = IF idx + 1 = Len(outcome.parts) THEN AfterText(data) ELSE "text"
          /\ UNCHANGED <<log, faults>>
       \/ /\ Unexpected("send_text")
          /\ idx' = idx
    /\ UNCHANGED <<splitVars, access_key, word, data, calls,
                   uk_pron_sent, us_pron_sent, photo_id>>

\* download_and_send_audio telling the user about a failure.
download_and_send_audio_reports(audio_url, voice_type, ok) ==
    /\ calls' = Append(calls, <<"audio", audio_url>>)
    /\ \/ /\ ok
          /\ replies' = Append(replies, Reply("voice", voice_type))
          /\ UNCHANGED <<log, faults>>
       \/ /\ ~ok
          /\ \E fault \in {"audio_fetch", "audio_send"} :
                faults' = Append(faults, fault)
          /\ log' = Append(log, "audio")
          /\ replies' = Append(replies, Reply("internal", ""))

\* download_and_send_audio (188-211): the fetch, then the voice message; any
\* exception is logged and turned into False.  ok is the value returned.
download_and_send_audio(audio_url, voice_type, ok) ==
    /\ calls' = Append(calls, <<"audio", audio_url>>)
    /\ \/ /\ ok
          /\ replies' = Append(replies, Reply("voice", voice_type))
          /\ UNCHANGED <<log, faults>>
       \/ /\ ~ok
          /\ \E fault \in {"audio_fetch", "audio_send"} :
                faults' = Append(faults, fault)
          /\ log' = Append(log, "audio")
          /\ replies' = replies

\* lines 293-299
AudioUK ==
    /\ pc = "audio_uk"
    /\ \E ok \in BOOLEAN :
          /\ download_and_send_audio(FirstPron(data.pronunciation, "uk")[1].url, "UK", ok)
          /\ uk_pron_sent' = ok
    /\ pc' = AfterUK(data)
    /\ UNCHANGED <<splitVars, access_key, word, data, idx, us_pron_sent, photo_id>>

\* lines 301-307
AudioUS ==
    /\ pc = "audio_us"
    /\ \E ok \in BOOLEAN :
          /\ download_and_send_audio(FirstPron(data.pronunciation, "us")[1].url, "US", ok)
          /\ us_pron_sent' = ok
    /\ pc' = AfterAudio
    /\ UNCHANGED <<splitVars, access_key, word, data, idx, uk_pron_sent, photo_id>>

PhotoIds == {"", "id1"}

\* fetch_unsplash_images (35-75), called in line 312; the result is tested in 314
ImageSearch ==
    /\ pc = "img_search"
    /\ calls' = Append(calls, <<"img_search", word>>)
    /\ \/ /\ faults' = Append(faults, "img_search")
          /\ log' = Append(log, "unsplash")
          /\ pc' = "returned"
          /\ photo_id' = photo_id
       \/ /\ pc' = "returned"
          /\ UNCHANGED <<faults, log, photo_id>>
       \/ /\ photo_id' \in PhotoIds
          /\ pc' = "img_download"
          /\ UNCHANGED <<faults, log>>
    /\ UNCHANGED <<splitVars, access_key, word, data, idx, replies,
                   uk_pron_sent, us_pron_sent>>

\* download_image_data (95-106), called in line 318; None and b"" both fail
\* the test of line 320 and are logged in 347
ImageDownload ==
    /\ pc = "img_download"
    /\ calls' = Append(calls, <<"img_download", word>>)
    /\ \/ /\ faults' = Append(faults, "img_download")
          /\ log' = log \o <<"download", "no_image_data">>
          /\ pc' = "returned"
       \/ /\ faults' = faults
          /\ log' = Append(log, "no_image_data")
          /\ pc' = "returned"
       \/ /\ pc' = "photo"
          /\ UNCHANGED <<faults, log>>
    /\ UNCHANGED <<splitVars, access_key, word, data, idx, replies,
                   uk_pron_sent, us_pron_sent, photo_id>>

\* lines 321-340, with the handler of 344-345 for a failed send
SendPhoto ==
    /\ pc = "photo"
    /\ \/ /\ replies' = Append(replies, Reply("photo", ""))
          /\ pc' = "register"
          /\ UNCHANGED <<faults, log>>
       \/ /\ faults' = Append(faults, "photo_send")
          /\ log' = Append(log, "photo")
          /\ pc' = "returned"
          /\ replies' = replies
    /\ UNCHANGED <<splitVars, access_key, word, data, idx, calls,
                   uk_pron_sent, us_pron_sent, photo_id>>

\* trigger_unsplash_download (77-93), called in line 343
trigger_unsplash_download ==
    /\ pc = "register"
    /\ IF photo_id = ""
       THEN UNCHANGED <<calls, faults, log>>
       ELSE /\ calls' = Append(calls, <<"register", photo_id>>)
            /\ \/ /\ faults' = Append(faults, "register")
                  /\ log' = Append(log, "register")
               \/ UNCHANGED <<faults, log>>
    /\ pc' = "returned"
    /\ UNCHANGED <<splitVars, access_key, word, data, idx, replies,
                   uk_pron_sent, us_pron_sent, photo_id>>

Init ==
    /\ text = <<>>
    /\ max_length = MAX_MESSAGE_LENGTH
    /\ outcome = NoOutcome
    /\ phase = "unused"
    /\ access_key \in BOOLEAN
    /\ BotIdle

Next ==
    \/ ReceiveEmpty
    \/ ReceiveWord
    \/ LookupFails
    \/ LookupError
    \/ LookupOk
    \/ SendPart
    \/ AudioUK
    \/ AudioUS
    \/ ImageSearch
    \/ ImageDownload
    \/ SendPhoto
    \/ trigger_unsplash_download

Spec == Init /\ [][Next]_vars

----------------------------------------------------------------------------
(* Properties of search_word                                               *)

Finished == pc \in {"returned", "raised"}

HasError == data.error # "absent"

IsAudioCall(c) == c[1] = "audio"
AudioCalls == SelectSeq(calls, IsAudioCall)

IsErrorReply(r) == r.kind = "error"
IsVoice(r) == r.kind = "voice"
IsChunk(r) == r.kind \in {"text", "continued"}
IsErrorLevel(l) == l # "no_image_data"

Progress == Reply("progress", "")

\* C6 as stated: on a response with "error" the handler sends exactly one
\* reply, which carries the error text, and makes no audio, image or
\* registration call.  Stated for the runs in which no send fails.
C6_SingleReplyOnError ==
    (Finished /\ HasError /\ faults = <<>>) =>
        /\ Len(replies) = 1
        /\ replies[1] = Reply("error", data.error)
        /\ calls = << <<"lookup", word>> >>

\* C6 amended: on a response with "error" the handler, after its progress
\* notice, attempts exactly one reply carrying the error text; delivered, it
\* is the last of exactly two replies; failed, the only further reply is the
\* generic internal-error message; the lookup is the only request made.
C6_ErrorReplyAfterNotice ==
    (Finished /\ HasError) =>
        /\ calls = << <<"lookup", word>> >>
        /\ \/ /\ replies = <<Progress, Reply("error", data.error)>>
              /\ faults = <<>>
              /\ pc = "returned"
           \/ /\ faults = <<"send_error">>
              /\ replies = <<Progress, Reply("internal", "")>>
              /\ pc = "returned"
           \/ /\ faults = <<"send_error", "send_internal">>
              /\ replies = <<Progress>>
              /\ pc = "raised"

C6_Witness ==
    /\ pc = "returned" /\ access_key
    /\ data.error = "not found"
    /\ replies = <<Progress, Reply("error", "not found")>>

FirstUK == FirstPron(data.pronunciation, "uk")
FirstUS == FirstPron(data.pronunciation, "us")

SameAudioUrl == FirstUK # <<>> /\ FirstUS # <<>> /\ FirstUK[1].url = FirstUS[1].url

\* C7: at most two audio fetches per request, never two of the same URL; when
\* the first uk and the first us entry share their URL, at most one fetch and
\* at most one voice message, the UK one.
C7_NoDuplicateAudio ==
    /\ Len(AudioCalls) <= 2
    /\ \A i, j \in 1 .. Len(AudioCalls) :
           i # j => AudioCalls[i][2] # AudioCalls[j][2]
    /\ SameAudioUrl =>
           /\ Len(AudioCalls) <= 1
           /\ Len(SelectSeq(replies, IsVoice)) <= 1
           /\ \A k \in 1 .. Len(replies) :
                  IsVoice(replies[k]) => replies[k].text = "UK"

C7_Witness ==
    /\ Finished /\ SameAudioUrl
    /\ Len(data.pronunciation) = 2
    /\ Len(AudioCalls) = 1
    /\ SelectSeq(replies, IsVoice) = <<Reply("voice", "UK")>>

TextAllSent == phase = "returned" /\ idx = Len(outcome.parts)

ChunkReply(k) == Reply(IF k = 1 THEN "text" ELSE "continued", outcome.parts[k])

AudioWanted ==
    (IF uk_wanted(data) THEN 1 ELSE 0) + (IF us_wanted(data) THEN 1 ELSE 0)

\* C8: once every text chunk is sent, failures of the audio and image steps
\* never reach the user and leave the chunks sent once each, in order; every
\* wanted audio clip and the image search are still attempted, and each
\* failure has its error log entry.
C8_SideEffectsIsolated ==
    TextAllSent =>
        /\ pc # "raised"
        /\ \A k \in 1 .. Len(replies) :
               replies[k].kind \in {"progress", "text", "continued", "voice", "photo"}
        /\ SelectSeq(replies, IsChunk) = [k \in 1 .. Len(outcome.parts) |-> ChunkReply(k)]
        /\ Len(SelectSeq(log, IsErrorLevel)) = Len(faults)
        /\ \A k \in 1 .. Len(log) : log[k] \notin {"unexpected", "api"}
        /\ Finished =>
               /\ Len(AudioCalls) = AudioWanted
               /\ access_key => \E k \in 1 .. Len(calls) : calls[k][1] = "img_search"

\* Both clips failed, the image step still ran and its registration failed.
C8_Witness ==
    /\ pc = "returned" /\ TextAllSent
    /\ Len(outcome.parts) >= 2
    /\ faults = <<"audio_fetch", "audio_send", "register">>
    /\ Len(AudioCalls) = 2
    /\ \E k \in 1 .. Len(replies) : replies[k].kind = "photo"

----------------------------------------------------------------------------
(* Properties of split_message                                             *)

Returned == phase = "returned" /\ outcome.raised = "none"

Parts == outcome.parts

RECURSIVE Concat(_)
Concat(ss) == IF ss = <<>> THEN <<>> ELSE Head(ss) \o Concat(Tail(ss))

IsLetter(c) == c # NL

StripNL(s) == SelectSeq(s, IsLetter)

HasNL(s) == \E k \in 1 .. Len(s) : s[k] = NL

HasBlankLine(s) == Find(s, <<NL, NL>>, 0) < Len(s)

Separators == {<<>>, <<NL>>, <<NL, NL>>}

\* parts[1] seps[1] parts[2] ... seps[n-1] parts[n]
RECURSIVE Rejoin(_, _, _)
Rejoin(ps, seps, k) ==
    IF k > Len(ps) THEN <<>>
    ELSE IF k = Len(ps) THEN ps[k]
    ELSE ps[k] \o seps[k] \o Rejoin(ps, seps, k + 1)

Reconstructs(t, ps) ==
    \E seps \in [1 .. (IF Len(ps) = 0 THEN 0 ELSE Len(ps) - 1) -> Separators] :
        Rejoin(ps, seps, 1) = t

\* C1: for max_length > 0 every returned part has length <= max_length,
\* whichever branch (paragraph, line, fixed-size block) produced it.
C1_PartsWithinLimit ==
    (Returned /\ max_length > 0) =>
        \A k \in 1 .. Len(Parts) : Len(Parts[k]) <= max_length

\* Two paragraphs joined by a blank line into a part of exactly the limit.
C1_Witness ==
    /\ Returned /\ max_length > 0 /\ Len(text) > max_length
    /\ Len(Parts) >= 2
    /\ \E k \in 1 .. Len(Parts) :
           /\ Len(Parts[k]) = max_length
           /\ HasBlankLine(Parts[k])
           /\ Parts[k][1] # NL /\ Parts[k][max_length] # NL

\* C2: for max_length > 0 every returned part is a non-empty string.  Stated
\* for non-empty text: for text = '' the list [''] is the short-text result.
C2_PartsNonEmpty ==
    (Returned /\ max_length > 0 /\ text # <<>>) =>
        \A k \in 1 .. Len(Parts) : Parts[k] # <<>>

\* C3: the parts, rejoined in order with nothing, a newline or a blank line
\* at each junction, give back the text.
C3_RejoinReconstructs ==
    (Returned /\ max_length > 0) => Reconstructs(text, Parts)

\* C4: a text no longer than max_length comes back as the one-element list
\* holding it unchanged.
C4_ShortTextUnchanged ==
    (phase = "returned" /\ Len(text) <= max_length) =>
        outcome = [raised |-> "none", parts |-> <<text>>]

C4_Witness ==
    /\ Returned /\ Len(text) = max_length
    /\ HasBlankLine(text) /\ text[1] # NL
    /\ Parts = <<text>>

\* C5: a call with max_length <= 0 is rejected with an error and never
\* returns a list.
C5_NonPositiveLimitRejected ==
    (phase = "returned" /\ max_length <= 0) => outcome.raised # "none"

\* C9: the parts concatenated in order, newlines removed, equal the text
\* with newlines removed.
C9_ContentOrderPreserved ==
    (Returned /\ max_length > 0) => StripNL(Concat(Parts)) = StripNL(text)

C9_Witness ==
    /\ Returned /\ max_length > 0 /\ Len(Parts) >= 3
    /\ HasBlankLine(text)
    /\ \E i, j \in 1 .. Len(text) : text[i] = "a" /\ text[j] = "b"
    /\ \E k \in 1 .. Len(Parts) : HasNL(Parts[k]) /\ Parts[k][1] # NL

CeilDiv(n, d) == (n + d - 1) \div d

\* C10: a text without newline longer than max_length > 0 is returned as its
\* ceil(n / max_length) consecutive slices of max_length characters.
C10_FixedBlocks ==
    (phase = "returned" /\ max_length > 0 /\ Len(text) > max_length /\ ~HasNL(text)) =>
        LET n == Len(text)
            cnt == CeilDiv(n, max_length)
        IN  /\ outcome.raised = "none"
            /\ Len(Parts) = cnt
            /\ \A k \in 1 .. cnt :
                   /\ Parts[k] = Slice(text, (k - 1) * max_length, k * max_length)
                   /\ k < cnt => Len(Parts[k]) = max_length
            /\ Len(Parts[cnt]) = n - max_length * (cnt - 1)

\* Three blocks, the last one shorter than the limit.
C10_Witness ==
    /\ Returned /\ ~HasNL(text) /\ max_length > 1
    /\ Len(Parts) = 3 /\ Len(Parts[3]) < max_length
====
